---- MODULE Spec2Model ----
(***************************************************************************)
(* Model of bank-deposit-manager: the keyed collection helpers of          *)
(* src/src/utils.rs and the accrual engine, diversification policy and     *)
(* reallocation advisor of src/src/main.rs.                                *)
(*                                                                         *)
(* Numbers.  The program computes in f32.  The model computes the same     *)
(* expressions exactly, on decimal fractions n / Base^e, so it states the  *)
(* real-number meaning of every f32 expression; rounding error is not      *)
(* modelled.  Amounts are whole currency units, capacities and commissions *)
(* are hundredths, and a rate field "percent" holds the integer R for the  *)
(* annual rate R * 3.6525, so that percent / 365.25 is exactly R / 100.    *)
(*                                                                         *)
(* Time.  A NaiveDateTime is a calendar date plus a time of day in half    *)
(* days, enough for Duration::num_days to truncate.                        *)
(***************************************************************************)
EXTENDS Integers, Sequences, FiniteSets, TLC

VARIABLES
    banks,      \* print_suggestions: the caller's bank list
    deposits,   \* print_suggestions: the caller's active deposits
    pc,         \* position of the advisor: idle, loop, done, panicked
    sorted_banks,           \* the local banks of line 164
    banks_by_name,          \* the local of line 167
    total_amount,           \* the local of line 168
    total_amount_per_bank,  \* the local of lines 170-173
    now,        \* the local clock as read by the running call
    idx,        \* index of the next deposit of the for loop
    lines,      \* the lines vector of the running call
    stdout,     \* what the running call has printed
    locals,     \* the loop body's locals after the latest iteration
    prev,       \* the previous call: its clock, its output, how it ended
    args,       \* arguments of a helper function under test
    ret         \* the callee's frame / return value of that helper

precomputed == <<sorted_banks, banks_by_name, total_amount, total_amount_per_bank>>

advisorVars == <<banks, deposits, pc, precomputed, now, idx, lines, stdout, locals, prev>>

vars == <<advisorVars, args, ret>>

\* Option<T>: None is the empty sequence, Some(x) the sequence <<x>>
None == <<>>

Some(x) == <<x>>

\* HashMap::new()
EmptyMap == {}

(***************************************************************************)
(* Exact decimal fractions: [n, e] is n / Base^e, kept normalised.         *)
(***************************************************************************)
Base == 10 * 10

RECURSIVE Pow(_, _)
Pow(b, k) == IF k = 0 THEN 1 ELSE b * Pow(b, k - 1)

RECURSIVE FNorm(_)
FNorm(x) ==
    IF x.e > 0 /\ x.n % Base = 0
    THEN FNorm([n |-> x.n \div Base, e |-> x.e - 1])
    ELSE x

FInt(i) == [n |-> i, e |-> 0]

\* i hundredths
FHundredths(i) == FNorm([n |-> i, e |-> 1])

FMaxE(x, y) == IF x.e >= y.e THEN x.e ELSE y.e

FAt(x, e) == x.n * Pow(Base, e - x.e)

FAdd(x, y) == FNorm([n |-> FAt(x, FMaxE(x, y)) + FAt(y, FMaxE(x, y)), e |-> FMaxE(x, y)])

FSub(x, y) == FNorm([n |-> FAt(x, FMaxE(x, y)) - FAt(y, FMaxE(x, y)), e |-> FMaxE(x, y)])

FMul(x, y) == FNorm([n |-> x.n * y.n, e |-> x.e + y.e])

FLe(x, y) == FAt(x, FMaxE(x, y)) <= FAt(y, FMaxE(x, y))

FLt(x, y) == FAt(x, FMaxE(x, y)) < FAt(y, FMaxE(x, y))

FZero == FInt(0)

(***************************************************************************)
(* chrono: NaiveDateTime, checked_add_months, Duration::num_days.          *)
(* A date-time is [ym, d, h]: ym months after January 2024, day of         *)
(* month d, and h half days into the day.                                  *)
(***************************************************************************)
IsLeap(y) == (y % 4 = 0 /\ y % 100 # 0) \/ y % 400 = 0

DaysInMonth(ym) ==
    LET y == 2024 + (ym \div 12)
        m == (ym % 12) + 1
    IN  IF m = 2 THEN (IF IsLeap(y) THEN 29 ELSE 28)
        ELSE IF m \in {4, 6, 9, 11} THEN 30 ELSE 31

RECURSIVE DaysBefore(_)
DaysBefore(ym) == IF ym = 0 THEN 0 ELSE DaysInMonth(ym - 1) + DaysBefore(ym - 1)

\* half days since the epoch: the order and the differences of date-times
Stamp(t) == 2 * (DaysBefore(t.ym) + t.d - 1) + t.h

DT(month, day, half) == [ym |-> month - 1, d |-> day, h |-> half]

\* date.checked_add_months(Months::new(1)): the day of month is kept, or
\* clamped to the last day of the next month
AddMonth(t) ==
    [ym |-> t.ym + 1,
     d  |-> IF t.d <= DaysInMonth(t.ym + 1) THEN t.d ELSE DaysInMonth(t.ym + 1),
     h  |-> t.h]

\* (a - b).num_days(): whole days, truncated toward zero
NumDays(a, b) ==
    LET diff == Stamp(a) - Stamp(b)
    IN  IF diff >= 0 THEN diff \div 2 ELSE -((-diff) \div 2)

(***************************************************************************)
(* calc_earn (main.rs 370-400).  A frame holds the arguments and the       *)
(* function's locals; periods records payable_days of every iteration.     *)
(***************************************************************************)
Capitalization == "Capitalization"
Once == "Once"
PayStrategy == {Capitalization, Once}

PercentPerDay(percent) == FHundredths(percent)

EarnFrame(initial_amount, percent, date_start, date_end, pay_strategy) ==
    [initial_amount |-> initial_amount,
     percent      |-> percent,
     date_start   |-> date_start,
     date_end     |-> date_end,
     pay_strategy |-> pay_strategy,
     amount       |-> FInt(initial_amount),
     date         |-> date_start,
     stop         |-> FALSE,
     total_earn   |-> FZero,
     periods      |-> <<>>]

\* next_date > date_end (line 384)
Overshoots(f) == Stamp(AddMonth(f.date)) > Stamp(f.date_end)

\* a slip: the overshooting period is not clipped to date_end
NextDateNoClip(f) == AddMonth(f.date)

\* next_date after the clipping of lines 383-387
NextDate(f) == IF Overshoots(f) THEN f.date_end ELSE AddMonth(f.date)

\* a slip: the earn is capitalised whatever the pay strategy
AmountAfterAlways(f, earn) == FAdd(f.amount, earn)

\* amount after the period's earn was computed (lines 390-392)
AmountAfter(f, earn) ==
    IF f.pay_strategy = Capitalization THEN FAdd(f.amount, earn) ELSE f.amount

\* one iteration of the while loop
EarnIter(f) ==
    LET next_date    == NextDate(f)
        stop         == Overshoots(f)
        payable_days == NumDays(next_date, f.date)
        earn         == FMul(FMul(f.amount, FInt(payable_days)), PercentPerDay(f.percent))
    IN  [f EXCEPT !.amount     = AmountAfter(f, earn),
                  !.total_earn = FAdd(f.total_earn, earn),
                  !.stop       = stop,
                  !.periods    = Append(f.periods, payable_days),
                  !.date       = IF stop THEN f.date ELSE next_date]

RECURSIVE EarnRun(_)
EarnRun(f) == IF f.stop THEN f ELSE EarnRun(EarnIter(f))

calc_earn(initial_amount, percent, date_start, date_end, pay_strategy) ==
    EarnRun(EarnFrame(initial_amount, percent, date_start, date_end, pay_strategy)).total_earn

(***************************************************************************)
(* Specification of calc_earn alone: the arguments are drawn in the        *)
(* initial state and every step runs one iteration of the loop.            *)
(***************************************************************************)
EarnAmounts == {0, 100, 200}
EarnPercents == {-1, 0, 1, 2}
EarnDates == {DT(1, 1, 0), DT(1, 1, 1), DT(1, 31, 0), DT(2, 1, 0), DT(2, 10, 1),
              DT(2, 29, 0), DT(3, 1, 0), DT(3, 15, 0)}

\* the advisor before any call; the clock variable holds a placeholder
IdleAdvisor ==
    /\ banks = <<>>
    /\ deposits = <<>>
    /\ pc = "idle"
    /\ sorted_banks = <<>>
    /\ banks_by_name = EmptyMap
    /\ total_amount = 0
    /\ total_amount_per_bank = EmptyMap
    /\ now = DT(1, 1, 0)
    /\ idx = 0
    /\ lines = <<>>
    /\ stdout = <<>>
    /\ locals = None
    /\ prev = None

InitEarn ==
    /\ IdleAdvisor
    /\ args = <<>>
    /\ ret \in {EarnFrame(p, r, s, e, ps) :
                   p \in EarnAmounts, r \in EarnPercents,
                   s \in EarnDates, e \in EarnDates, ps \in PayStrategy}

EarnStep ==
    /\ ~ret.stop
    /\ ret' = EarnIter(ret)
    /\ UNCHANGED <<advisorVars, args>>

NextEarn == EarnStep

SpecEarn == InitEarn /\ [][NextEarn]_vars

(***************************************************************************)
(* utils.rs: order_by, group_by, index_by.  A HashMap is modelled as the   *)
(* set of <<key, value>> pairs with pairwise distinct keys.                *)
(***************************************************************************)
Less == "Less"
Equal == "Equal"
Greater == "Greater"

\* a.cmp(b) / a.partial_cmp(b).unwrap() on numbers
Cmp(a, b) == IF a < b THEN Less ELSE IF a = b THEN Equal ELSE Greater

\* The closures passed to the helpers, by name.  The comparators:
\* |(k1, _), (k2, _)| k1.cmp(k2), the unit test's
ByKeyAsc(a, b) == Cmp(a[1], b[1])

\* the same on the keys in descending order, the advisor's shape
ByKeyDesc(a, b) == Cmp(b[1], a[1])

\* |b1, b2| b2.percent.partial_cmp(&b1.percent).unwrap(), main.rs line 164
ByPercentDesc(b1, b2) == Cmp(b2.percent, b1.percent)

\* compare(a, b)
Compare(compare, a, b) ==
    CASE compare = "ByKeyAsc"      -> ByKeyAsc(a, b)
      [] compare = "ByKeyDesc"     -> ByKeyDesc(a, b)
      [] compare = "ByPercentDesc" -> ByPercentDesc(a, b)

\* The key functions: |(k, _)| k, |bank| &bank.name, |d| &d.bank
KeyOf(item) == item[1]

BankName(bank) == bank.name

DepositBank(d) == d.bank

\* func(item)
Apply(func, item) ==
    CASE func = "KeyOf"       -> KeyOf(item)
      [] func = "BankName"    -> BankName(item)
      [] func = "DepositBank" -> DepositBank(item)

\* a slip: an item goes before the items equal to it (the sort is not stable)
SortInsertBeforeEqual(s, x, compare) ==
    LET k == Cardinality({j \in 1..Len(s) : Compare(compare, s[j], x) = Less})
    IN  SubSeq(s, 1, k) \o <<x>> \o SubSeq(s, k + 1, Len(s))

\* Vec::sort_by is a stable sort: into the sorted prefix s, x goes after
\* every item that is not greater than it
SortInsert(s, x, compare) ==
    LET k == Cardinality({j \in 1..Len(s) : Compare(compare, s[j], x) # Greater})
    IN  SubSeq(s, 1, k) \o <<x>> \o SubSeq(s, k + 1, Len(s))

order_by(vec, compare) ==
    LET sorted[i \in 0..Len(vec)] ==
            IF i = 0 THEN <<>> ELSE SortInsert(sorted[i - 1], vec[i], compare)
    IN  sorted[Len(vec)]

Keys(map) == {p[1] : p \in map}

MapGet(map, key) == (CHOOSE p \in map : p[1] = key)[2]

\* a slip: a key already present keeps its first item
HashInsertIfAbsent(map, key, item) ==
    IF key \in Keys(map) THEN map ELSE map \cup {<<key, item>>}

\* HashMap::insert: the item replaces the one the key had
HashInsert(map, key, item) == {p \in map : p[1] # key} \cup {<<key, item>>}

index_by(vec, func) ==
    LET m[i \in 0..Len(vec)] ==
            IF i = 0 THEN EmptyMap ELSE HashInsert(m[i - 1], Apply(func, vec[i]), vec[i])
    IN  m[Len(vec)]

GroupPush(map, key, item) ==
    IF key \notin Keys(map)
    THEN HashInsert(map, key, <<item>>)
    ELSE HashInsert(map, key, Append(MapGet(map, key), item))

group_by(vec, func) ==
    LET m[i \in 0..Len(vec)] ==
            IF i = 0 THEN EmptyMap ELSE GroupPush(m[i - 1], Apply(func, vec[i]), vec[i])
    IN  m[Len(vec)]

(***************************************************************************)
(* Specifications of order_by and index_by alone, on the pairs (key, tag)  *)
(* of the unit tests of utils.rs.                                          *)
(***************************************************************************)
MaxLen == 3

TestKeys == {1, 2, 3}
TestTags == {1, 2}
TestItems == TestKeys \X TestTags

RECURSIVE SeqsUpTo(_, _)
SeqsUpTo(S, n) ==
    IF n = 0 THEN {<<>>}
    ELSE LET shorter == SeqsUpTo(S, n - 1)
         IN  shorter \cup {Append(s, x) : s \in {t \in shorter : Len(t) = n - 1}, x \in S}

InitSort ==
    /\ IdleAdvisor
    /\ args \in SeqsUpTo(TestItems, MaxLen)
    /\ ret = None

OrderByAsc ==
    /\ ret = None
    /\ ret' = Some([compare |-> "asc", out |-> order_by(args, "ByKeyAsc")])
    /\ UNCHANGED <<advisorVars, args>>

OrderByDesc ==
    /\ ret = None
    /\ ret' = Some([compare |-> "desc", out |-> order_by(args, "ByKeyDesc")])
    /\ UNCHANGED <<advisorVars, args>>

NextSort == OrderByAsc \/ OrderByDesc

SpecSort == InitSort /\ [][NextSort]_vars

InitIndex ==
    /\ IdleAdvisor
    /\ args \in SeqsUpTo(TestItems, MaxLen)
    /\ ret = None

IndexBy ==
    /\ ret = None
    /\ ret' = Some([map |-> index_by(args, "KeyOf")])
    /\ UNCHANGED <<advisorVars, args>>

NextIndex == IndexBy

SpecIndex == InitIndex /\ [][NextIndex]_vars

(***************************************************************************)
(* check_diversification (main.rs 247-262).  The share is an f32 quotient: *)
(* finite when total_amount is not zero, otherwise +inf, -inf or NaN.      *)
(***************************************************************************)
Quotient(a, t) ==
    IF t > 0 THEN [kind |-> "finite", num |-> a, den |-> t]
    ELSE IF t < 0 THEN [kind |-> "finite", num |-> -a, den |-> -t]
    ELSE IF a > 0 THEN [kind |-> "+inf", num |-> 0, den |-> 1]
    ELSE IF a < 0 THEN [kind |-> "-inf", num |-> 0, den |-> 1]
    ELSE [kind |-> "NaN", num |-> 0, den |-> 1]

\* capacity <= share, the capacity c in hundredths
CapLeShare(c, s) ==
    CASE s.kind = "finite" -> c * s.den <= Base * s.num
      [] s.kind = "+inf"   -> TRUE
      [] OTHER             -> FALSE

\* share <= capacity
ShareLeCap(s, c) ==
    CASE s.kind = "finite" -> Base * s.num <= c * s.den
      [] s.kind = "-inf"   -> TRUE
      [] OTHER             -> FALSE

MapGetOr(map, key, default) == IF key \in Keys(map) THEN MapGet(map, key) ELSE default

\* a slip: the proposed delta is taken off the bank's total
PossibleBankAmountMinus(bank, amount_diff, per_bank) ==
    MapGetOr(per_bank, bank.name, 0) - amount_diff

PossibleBankAmount(bank, amount_diff, per_bank) ==
    MapGetOr(per_bank, bank.name, 0) + amount_diff

check_diversification(bank, amount_diff, per_bank, total, check_lower_bound, check_upper_bound) ==
    LET possible_bank_amount == PossibleBankAmount(bank, amount_diff, per_bank)
        possible_bank_capacity == Quotient(possible_bank_amount, total)
    IN  /\ (~check_lower_bound \/ CapLeShare(bank.min_capacity, possible_bank_capacity))
        /\ (~check_upper_bound \/ ShareLeCap(possible_bank_capacity, bank.max_capacity))

(***************************************************************************)
(* Specification of check_diversification alone: one bank, one map of      *)
(* per-bank totals, one portfolio total and two deltas x and y; the step   *)
(* runs the lower-bound-only and the upper-bound-only check on each.       *)
(***************************************************************************)
DivMinCaps == {0, 30, 60}
DivMaxCaps == {50, 100}
DivBankTotals == {0, 100}
DivTotals == {-100, 0, 100, 200}
DivDeltas == {-100, -50, 0, 50, 100}

DivBank(lo, hi) == [name |-> "A", min_capacity |-> lo, max_capacity |-> hi]

DivMaps == {EmptyMap} \cup {HashInsert(EmptyMap, "A", t) : t \in DivBankTotals}

InitDiv ==
    /\ IdleAdvisor
    /\ args \in {[bank |-> DivBank(lo, hi), per_bank |-> m, total |-> tot,
                  x |-> x, y |-> y] :
                    lo \in DivMinCaps, hi \in DivMaxCaps, m \in DivMaps,
                    tot \in DivTotals, x \in DivDeltas, y \in DivDeltas}
    /\ ret = None

CheckDiv ==
    /\ ret = None
    /\ ret' = Some(
              [lower_x |-> check_diversification(args.bank, args.x, args.per_bank,
                                                 args.total, TRUE, FALSE),
               lower_y |-> check_diversification(args.bank, args.y, args.per_bank,
                                                 args.total, TRUE, FALSE),
               upper_x |-> check_diversification(args.bank, args.x, args.per_bank,
                                                 args.total, FALSE, TRUE),
               upper_y |-> check_diversification(args.bank, args.y, args.per_bank,
                                                 args.total, FALSE, TRUE)])
    /\ UNCHANGED <<advisorVars, args>>

NextDiv == CheckDiv

SpecDiv == InitDiv /\ [][NextDiv]_vars

(***************************************************************************)
(* print_suggestions (main.rs 163-245), the reallocation advisor.          *)
(***************************************************************************)
MIN_BENEFIT == 10

\* deposits.iter().fold(0.0, |acc, &e| acc + e.amount)
calc_sum_amount(deps) ==
    LET acc[i \in 0..Len(deps)] == IF i = 0 THEN 0 ELSE acc[i - 1] + deps[i].amount
    IN  acc[Len(deps)]

\* lines 169-173
SumPerBank(deposits_per_bank) ==
    {<<g[1], calc_sum_amount(g[2])>> : g \in deposits_per_bank}

\* calc_depo_earn (main.rs 360-368)
calc_depo_earn(deposit, date_end) ==
    calc_earn(deposit.amount, deposit.percent, deposit.date_open, date_end,
              deposit.pay_strategy)

\* a slip: the search does not stop at the deposit's own bank
StopsAtNever(bank, self_bank) == FALSE

\* line 194: the search stops at the deposit's own bank
StopsAt(bank, self_bank) == bank.name = self_bank.name

\* a slip: staying put is charged the bank's commission
SelfCandidateCharged(self_bank) ==
    [best_bank |-> self_bank, transfer_comission |-> self_bank.transfer_comission]

\* lines 183-184: the deposit's own bank, and no commission for it
SelfCandidate(self_bank) == [best_bank |-> self_bank, transfer_comission |-> 0]

\* lines 193-211: the for loop over the sorted banks, from position i
RECURSIVE SearchFrom(_, _, _)
SearchFrom(i, self_bank, deposit) ==
    IF i > Len(sorted_banks) THEN SelfCandidate(self_bank)
    ELSE LET bank == sorted_banks[i]
         IN  IF StopsAt(bank, self_bank) THEN SelfCandidate(self_bank)
             ELSE IF ~check_diversification(bank, deposit.amount, total_amount_per_bank,
                                            total_amount, FALSE, TRUE)
             THEN SearchFrom(i + 1, self_bank, deposit)
             ELSE [best_bank |-> bank, transfer_comission |-> bank.transfer_comission]

\* lines 183-212
FindBest(self_bank, deposit) ==
    IF check_diversification(self_bank, -deposit.amount, total_amount_per_bank,
                             total_amount, TRUE, FALSE)
    THEN SearchFrom(1, self_bank, deposit)
    ELSE SelfCandidate(self_bank)

\* a slip: a benefit equal to the threshold is dropped
ClearsThresholdStrict(possible_benefit) == FLt(FInt(MIN_BENEFIT), possible_benefit)

\* line 224
ClearsThreshold(possible_benefit) == FLe(FInt(MIN_BENEFIT), possible_benefit)

\* the loop body's locals for a deposit whose bank resolved (lines 183-223)
Body(self_bank, deposit) ==
    LET found            == FindBest(self_bank, deposit)
        best_bank        == found.best_bank
        comission_amount == FMul(FInt(deposit.amount), FHundredths(found.transfer_comission))
        possible_earn    == FSub(calc_earn(deposit.amount, best_bank.percent, now,
                                           deposit.date_close, best_bank.pay_strategy),
                                 comission_amount)
        current_earn     == calc_depo_earn(deposit, deposit.date_close)
    IN  [self_bank          |-> self_bank,
         best_bank          |-> best_bank,
         transfer_comission |-> found.transfer_comission,
         comission_amount   |-> comission_amount,
         possible_earn      |-> possible_earn,
         current_earn       |-> current_earn,
         possible_benefit   |-> FSub(possible_earn, current_earn)]

\* n / d rounded to the nearest integer, ties to even, d > 0
RoundQuot(n, d) ==
    LET q == n \div d
        r == n % d
    IN  IF 2 * r > d \/ (2 * r = d /\ q % 2 = 1) THEN q + 1 ELSE q

\* {:.2}: two decimals
Fmt2(x) == IF x.e <= 1 THEN x ELSE FNorm([n |-> RoundQuot(x.n, Pow(Base, x.e - 1)), e |-> 1])

\* lines 225-234: the text of a suggestion, as the fields it renders
Line(deposit, l) ==
    [text         |-> "Reopen deposit",
     name         |-> deposit.name,
     amount_k     |-> RoundQuot(deposit.amount, 1000),
     from         |-> deposit.bank,
     to           |-> l.best_bank.name,
     percent      |-> deposit.percent,
     best_percent |-> l.best_bank.percent,
     benefit      |-> Fmt2(l.possible_benefit),
     comission    |-> Fmt2(l.comission_amount)]

\* line 243
NoSuggestions ==
    [text |-> "No suggestions", name |-> "", amount_k |-> 0, from |-> "", to |-> "",
     percent |-> 0, best_percent |-> 0, benefit |-> FZero, comission |-> FZero]

(***************************************************************************)
(* The inputs: bank lists and deposit lists without repetition, drawn from *)
(* two pools.  Two banks share the name C, and the rates tie in pairs.     *)
(***************************************************************************)
MaxBanks == 4
MaxDeposits == 2

Bank(name, percent, lo, hi, comission, strategy) ==
    [name |-> name, percent |-> percent, min_capacity |-> lo, max_capacity |-> hi,
     transfer_comission |-> comission, pay_strategy |-> strategy]

BankPool ==
    { Bank("A", 2, 0, 100, 0, Once),
      Bank("B", 3, 0, 100, 0, Once),
      Bank("C", 3, 0, 50, 1, Capitalization),
      Bank("C", 2, 50, 100, 0, Capitalization) }

Deposit(bank, name, open, close, amount, percent, strategy) ==
    [bank |-> bank, name |-> name, date_open |-> open, date_close |-> close,
     amount |-> amount, percent |-> percent, pay_strategy |-> strategy]

DepositPool ==
    { Deposit("A", "d1", DT(1, 1, 0), DT(1, 31, 0), 100, 1, Once),
      Deposit("C", "d2", DT(1, 1, 0), DT(3, 15, 0), 200, 3, Capitalization),
      Deposit("X", "d3", DT(1, 1, 0), DT(3, 1, 0), 100, 2, Once),
      Deposit("A", "d4", DT(1, 1, 0), DT(3, 1, 0), 100, 2, Once) }

Nows == {DT(1, 10, 1), DT(2, 1, 0)}

Range(s) == {s[i] : i \in DOMAIN s}

\* the sequences of at most n distinct members of S
RECURSIVE DistinctSeqs(_, _)
DistinctSeqs(S, n) ==
    IF n = 0 THEN {<<>>}
    ELSE LET shorter == DistinctSeqs(S, n - 1)
         IN  shorter \cup
             UNION {{Append(s, x) : x \in S \ Range(s)} :
                        s \in {t \in shorter : Len(t) = n - 1}}

Init ==
    /\ banks \in DistinctSeqs(BankPool, MaxBanks)
    /\ deposits \in DistinctSeqs(DepositPool, MaxDeposits)
    /\ pc = "idle"
    /\ sorted_banks = <<>>
    /\ banks_by_name = EmptyMap
    /\ total_amount = 0
    /\ total_amount_per_bank = EmptyMap
    /\ now = DT(1, 1, 0)
    /\ idx = 0
    /\ lines = <<>>
    /\ stdout = <<>>
    /\ locals = None
    /\ prev = None
    /\ args = <<>>
    /\ ret = None

\* lines 164-174: the locals computed before the loop, the clock read as n
Precompute(n) ==
    /\ sorted_banks' = order_by(banks, "ByPercentDesc")
    /\ banks_by_name' = index_by(order_by(banks, "ByPercentDesc"), "BankName")
    /\ total_amount' = calc_sum_amount(deposits)
    /\ total_amount_per_bank' = SumPerBank(group_by(deposits, "DepositBank"))
    /\ now' = n

\* the call before this one, if any
Previous == IF pc = "idle" THEN None ELSE Some([now |-> now, stdout |-> stdout, pc |-> pc])

\* a slip: lines is kept from one call to the next
StartKeepLines(n) ==
    /\ pc \in {"idle", "done", "panicked"}
    /\ prev' = Previous
    /\ Precompute(n)
    /\ idx' = 1
    /\ stdout' = <<>>
    /\ locals' = None
    /\ pc' = "loop"
    /\ UNCHANGED <<banks, deposits, lines, args, ret>>

\* print_suggestions is called (again): lines 163-176
Start(n) ==
    /\ pc \in {"idle", "done", "panicked"}
    /\ prev' = Previous
    /\ Precompute(n)
    /\ idx' = 1
    /\ lines' = <<>>
    /\ stdout' = <<>>
    /\ locals' = None
    /\ pc' = "loop"
    /\ UNCHANGED <<banks, deposits, args, ret>>

\* banks_by_name.get(&deposit.bank) is Some
Resolves(deposit) == deposit.bank \in Keys(banks_by_name)

\* a slip: a deposit whose bank is unknown is skipped
IterateSkip ==
    /\ pc = "loop"
    /\ idx <= Len(deposits)
    /\ ~Resolves(deposits[idx])
    /\ idx' = idx + 1
    /\ UNCHANGED <<banks, deposits, pc, precomputed, now, lines, stdout, locals, prev,
                   args, ret>>

\* lines 179-181: expect() panics on a deposit whose bank is unknown
IteratePanic ==
    /\ pc = "loop"
    /\ idx <= Len(deposits)
    /\ ~Resolves(deposits[idx])
    /\ pc' = "panicked"
    /\ UNCHANGED <<banks, deposits, precomputed, now, idx, lines, stdout, locals, prev,
                   args, ret>>

\* lines 178-236: one iteration of the for loop over the deposits
Iterate ==
    /\ pc = "loop"
    /\ idx <= Len(deposits)
    /\ Resolves(deposits[idx])
    /\ LET deposit == deposits[idx]
           l       == Body(MapGet(banks_by_name, deposit.bank), deposit)
       IN  /\ locals' = Some(l)
           /\ lines' = IF ClearsThreshold(l.possible_benefit)
                       THEN Append(lines, Line(deposit, l))
                       ELSE lines
    /\ idx' = idx + 1
    /\ UNCHANGED <<banks, deposits, pc, precomputed, now, stdout, prev, args, ret>>

\* lines 238-244: the lines are printed, or the "No suggestions" report
PrintLines ==
    /\ pc = "loop"
    /\ idx > Len(deposits)
    /\ stdout' = IF Len(lines) > 0 THEN lines ELSE <<NoSuggestions>>
    /\ pc' = "done"
    /\ UNCHANGED <<banks, deposits, precomputed, now, idx, lines, locals, prev, args, ret>>

Next ==
    \/ \E n \in Nows : Start(n)
    \/ Iterate
    \/ IteratePanic
    \/ PrintLines

Spec == Init /\ [][Next]_vars

(***************************************************************************)
(* The claims.                                                             *)
(***************************************************************************)
AllResolve == \A i \in 1..Len(deposits) : \E j \in 1..Len(banks) : banks[j].name = deposits[i].bank

\* the deposit the latest iteration worked on (locals is Some)
LastDeposit == deposits[idx - 1]

\* C1: a deposit naming an unknown bank makes the call fail: the call never
\* completes, the panic happens at that deposit (never skipped), and
\* nothing is printed, neither the lines already collected nor the "No
\* suggestions" report.
C1_UnknownBankIsFatal ==
    /\ pc = "done" => AllResolve
    /\ pc = "panicked" =>
          /\ stdout = <<>>
          /\ \A j \in 1..Len(banks) : banks[j].name # deposits[idx].bank
          /\ \A i \in 1..(idx - 1) : \E j \in 1..Len(banks) : banks[j].name = deposits[i].bank
    /\ pc = "loop" =>
          /\ stdout = <<>>
          /\ \A i \in 1..(idx - 1) : \E j \in 1..Len(banks) : banks[j].name = deposits[i].bank

\* a call that panicked after an earlier deposit had cleared the threshold
C1_Witness == pc = "panicked" /\ idx > 1 /\ Len(lines) > 0 /\ stdout = <<>>

\* the reference of C2, on the positions of the input bank list: bank i is
\* ahead of bank j in the stable rate-descending ordering
RefBefore(i, j) ==
    \/ banks[i].percent > banks[j].percent
    \/ banks[i].percent = banks[j].percent /\ i < j

UniqueResolution(d) == Cardinality({i \in 1..Len(banks) : banks[i].name = d.bank}) = 1

RefCurrent(d) == CHOOSE i \in 1..Len(banks) : banks[i].name = d.bank

RefWithdrawOk(d) ==
    check_diversification(banks[RefCurrent(d)], -d.amount, total_amount_per_bank,
                          total_amount, TRUE, FALSE)

RefAccepts(i, d) ==
    check_diversification(banks[i], d.amount, total_amount_per_bank, total_amount, FALSE, TRUE)

RefQualifying(d) == {i \in 1..Len(banks) : RefBefore(i, RefCurrent(d)) /\ RefAccepts(i, d)}

RefCandidate(d) ==
    LET qualifying == RefQualifying(d)
    IN  IF ~RefWithdrawOk(d) \/ qualifying = {}
        THEN [best_bank |-> banks[RefCurrent(d)], transfer_comission |-> 0]
        ELSE LET first == CHOOSE i \in qualifying :
                              \A j \in qualifying \ {i} : RefBefore(i, j)
             IN  [best_bank |-> banks[first],
                  transfer_comission |-> banks[first].transfer_comission]

SuggestedLast == Len(lines) > 0 /\ lines[Len(lines)].name = LastDeposit.name

\* C3 as stated: when the candidate is the deposit's own bank, no suggestion
\* is emitted for the deposit.
C3_Original ==
    (Len(locals) = 1 /\ locals[1].best_bank = locals[1].self_bank) => ~SuggestedLast

\* net benefit of re-opening the deposit at its own bank's offered terms
StayBenefit(d, self_bank) ==
    FSub(calc_earn(d.amount, self_bank.percent, now, d.date_close, self_bank.pay_strategy),
         calc_earn(d.amount, d.percent, d.date_open, d.date_close, d.pay_strategy))

\* C3 amended: when the candidate is the deposit's own bank, no other bank
\* is ever suggested and nothing is charged: a suggestion for the deposit
\* names its own bank as target with commission zero, and it is emitted
\* exactly when re-opening at the own bank's offered rate from now on beats
\* the deposit's own schedule by at least MIN_BENEFIT.
C3_StayIsReopenInPlace ==
    (Len(locals) = 1 /\ locals[1].best_bank = locals[1].self_bank) =>
        /\ locals[1].transfer_comission = 0
        /\ locals[1].comission_amount = FZero
        /\ SuggestedLast <=>
              FLe(FInt(MIN_BENEFIT), StayBenefit(LastDeposit, locals[1].self_bank))
        /\ SuggestedLast =>
              /\ lines[Len(lines)].to = LastDeposit.bank
              /\ lines[Len(lines)].comission = FZero

\* the spec's scenario: a bank of higher rate whose ceiling of 0.5 refuses
\* the only deposit, which stays and is still suggested, in place
C3_Witness ==
    /\ Len(locals) = 1
    /\ locals[1].best_bank = locals[1].self_bank
    /\ SuggestedLast
    /\ Len(deposits) = 1
    /\ \E i \in 1..Len(banks) :
          /\ banks[i].percent > locals[1].self_bank.percent
          /\ banks[i].max_capacity = 50
          /\ ~RefAccepts(i, LastDeposit)

\* net benefit of a deposit whose bank resolves, as the claim defines it
NetBenefit(d) ==
    LET found == FindBest(MapGet(banks_by_name, d.bank), d)
    IN  FSub(FSub(calc_earn(d.amount, found.best_bank.percent, now, d.date_close,
                            found.best_bank.pay_strategy),
                  FMul(FInt(d.amount), FHundredths(found.transfer_comission))),
             calc_earn(d.amount, d.percent, d.date_open, d.date_close, d.pay_strategy))

Qualifies(d) == FLe(FInt(MIN_BENEFIT), NetBenefit(d))

Names(seq) == [i \in 1..Len(seq) |-> seq[i].name]

\* C4: the suggestions are the deposits whose net benefit is at least
\* MIN_BENEFIT, in input order, each once: the lines collected after i
\* deposits are those of the first i deposits, and a completed call prints
\* exactly the lines of all of them (the "No suggestions" report if none).
C4_SuggestionsAreQualifying ==
    /\ pc \in {"loop", "done", "panicked"} =>
          Names(lines) = Names(SelectSeq(SubSeq(deposits, 1, idx - 1), Qualifies))
    /\ pc = "done" =>
          /\ Names(lines) = Names(SelectSeq(deposits, Qualifies))
          /\ stdout = IF Len(lines) > 0 THEN lines ELSE <<NoSuggestions>>

\* a completed call over two deposits that suggests one of them, at a net
\* benefit of exactly MIN_BENEFIT, and not the other
C4_Witness ==
    /\ pc = "done"
    /\ Len(deposits) = 2
    /\ Len(stdout) = 1
    /\ stdout[1].text = "Reopen deposit"
    /\ stdout[1].benefit = FInt(MIN_BENEFIT)

\* C5: with date_start = date_end the loop runs exactly once, over a period
\* of zero days, stops, and the total is 0.
C5_ZeroLengthRange ==
    (ret.date_start = ret.date_end /\ ret.initial_amount >= 0) =>
        /\ Len(ret.periods) <= 1
        /\ ~ret.stop => Len(ret.periods) = 0
        /\ Len(ret.periods) = 1 =>
              /\ ret.stop
              /\ ret.periods = <<0>>
              /\ ret.total_earn = FZero

C5_Witness ==
    /\ ret.date_start = ret.date_end
    /\ ret.stop
    /\ ret.initial_amount > 0
    /\ ret.percent # 0
    /\ ret.pay_strategy = Capitalization

OnceTotal(f) == calc_earn(f.initial_amount, f.percent, f.date_start, f.date_end, Once)

\* C6 as stated: over more than one period, Capitalization earns strictly
\* more than Once.
C6_Original ==
    (/\ ret.stop
     /\ ret.pay_strategy = Capitalization
     /\ ret.initial_amount >= 0
     /\ ret.percent > 0
     /\ Stamp(ret.date_start) <= Stamp(ret.date_end)
     /\ Len(ret.periods) > 1) => FLt(OnceTotal(ret), ret.total_earn)

PositivePeriods(f) == Cardinality({i \in 1..Len(f.periods) : f.periods[i] > 0})

\* C6 amended: Capitalization never earns less than Once, and earns strictly
\* more exactly when the principal is positive and at least two periods
\* have a positive number of whole days.
C6_CapitalizationAtLeastOnce ==
    (/\ ret.stop
     /\ ret.pay_strategy = Capitalization
     /\ ret.initial_amount >= 0
     /\ ret.percent > 0
     /\ Stamp(ret.date_start) <= Stamp(ret.date_end)) =>
        /\ FLe(OnceTotal(ret), ret.total_earn)
        /\ FLt(OnceTotal(ret), ret.total_earn) <=>
              (ret.initial_amount > 0 /\ PositivePeriods(ret) >= 2)

\* three periods, the earlier ones compounding into the later
C6_Witness ==
    /\ ret.stop
    /\ ret.pay_strategy = Capitalization
    /\ ret.initial_amount > 0
    /\ ret.percent > 0
    /\ Len(ret.periods) = 3
    /\ PositivePeriods(ret) = 3
    /\ FLt(OnceTotal(ret), ret.total_earn)

\* C7 as stated: for a positive portfolio total and deltas x < y, passing
\* the upper-bound check at x implies passing it at y, and failing the
\* lower-bound check at x implies failing it at y.
C7_Original ==
    (Len(ret) = 1 /\ args.total > 0 /\ args.x < args.y) =>
        /\ ret[1].upper_x => ret[1].upper_y
        /\ ~ret[1].lower_x => ~ret[1].lower_y

\* C7 amended: the monotonicity runs the other way: for a positive total and
\* x < y, passing the lower-bound check at x implies passing it at y, and
\* passing the upper-bound check at y implies passing it at x.
C7_MonotoneInDelta ==
    (Len(ret) = 1 /\ args.total > 0 /\ args.x < args.y) =>
        /\ ret[1].lower_x => ret[1].lower_y
        /\ ret[1].upper_y => ret[1].upper_x

\* the larger delta crosses both bounds
C7_Witness ==
    /\ Len(ret) = 1
    /\ args.total > 0
    /\ args.x < args.y
    /\ ~ret[1].lower_x /\ ret[1].lower_y
    /\ ret[1].upper_x /\ ~ret[1].upper_y

Perms(n) == {f \in [1..n -> 1..n] : \A i, j \in 1..n : f[i] = f[j] => i = j}

RefCompare(dir, a, b) == IF dir = "asc" THEN Cmp(a[1], b[1]) ELSE Cmp(b[1], a[1])

IsStableSort(out, in, dir) ==
    /\ Len(out) = Len(in)
    /\ \E f \in Perms(Len(in)) :
          /\ \A i \in 1..Len(in) : out[i] = in[f[i]]
          /\ \A i, j \in 1..Len(in) :
                i < j => /\ RefCompare(dir, out[i], out[j]) # Greater
                         /\ RefCompare(dir, out[i], out[j]) = Equal => f[i] < f[j]

\* C9: order_by returns a permutation of its input, sorted by the
\* comparator, in which items the comparator calls equal keep the relative
\* order they had in the input; the input is never changed.
C9_OrderByStable ==
    /\ [](Len(ret) = 1 => IsStableSort(ret[1].out, args, ret[1].compare))
    /\ [][args' = args]_vars

\* a descending sort that moved items and had a tie between different items
C9_Witness ==
    /\ Len(ret) = 1
    /\ ret[1].compare = "desc"
    /\ ret[1].out # args
    /\ \E i, j \in 1..Len(args) : i < j /\ args[i][1] = args[j][1] /\ args[i] # args[j]

LastWithKey(k) ==
    args[CHOOSE i \in 1..Len(args) :
            /\ KeyOf(args[i]) = k
            /\ \A j \in (i + 1)..Len(args) : KeyOf(args[j]) # k]

\* C10: the map's keys are the keys of the input items, one entry per key,
\* and each key maps to the last input item with that key.
C10_IndexByLastWins ==
    Len(ret) = 1 =>
        /\ Keys(ret[1].map) = {KeyOf(args[i]) : i \in 1..Len(args)}
        /\ Cardinality(ret[1].map) = Cardinality(Keys(ret[1].map))
        /\ \A k \in Keys(ret[1].map) : MapGet(ret[1].map, k) = LastWithKey(k)

\* two different items share a key
C10_Witness ==
    /\ Len(ret) = 1
    /\ \E i, j \in 1..Len(args) : i < j /\ KeyOf(args[i]) = KeyOf(args[j]) /\ args[i] # args[j]

====
